---- MODULE Spec2Model ----
(***************************************************************************)
(* Model of assistant.py: intent classification of a command, the weather  *)
(* / news / reminder handlers, the in-memory reminder list and the due-    *)
(* sweep run at the end of every /process_command request, with requests   *)
(* served on concurrent threads as app.run(debug=True) does.               *)
(* Strings are TLA+ strings (Len, SubSeq and \o work on them in TLC).       *)
(* The clock counts ticks of 1/TicksPerSecond s since midnight of the      *)
(* model day; a stored datetime is [day, sec, tick] after that midnight,   *)
(* as datetime and timedelta hold it, since fire times can pass 2^31 s.   *)
(***************************************************************************)
EXTENDS Integers, Sequences, FiniteSets, TLC

VARIABLES
  reminders,   \* the global list `reminders` (dicts + ghost id)
  now,         \* the clock read by datetime.now(), in ticks
  nextId,      \* ghost: id of the next reminder created
  fireAt,      \* ghost: id -> fire time recorded at creation (NoTime: not created)
  fireCount,   \* ghost: id -> number of sweeps that alerted it
  firedAt,     \* ghost: id -> clock of the sweep that alerted it
  served,      \* ghost: number of requests received so far
  threads,     \* per server thread: position in process_command, locals, answer
  cmd,         \* the command text of a single request (classifier checks)
  param,       \* ghost: the parts a reminder command was built from
  out          \* the handler result for cmd, before the sweep

\* ---------------------------------------------------------------- strings
Ch(s, i) == SubSeq(s, i, i)

UpperAlpha == "ABCDEFGHIJKLMNOPQRSTUVWXYZ"
LowerAlpha == "abcdefghijklmnopqrstuvwxyz"

\* str.lower() on one character
LowerChar(c) ==
  IF \E i \in 1..26 : Ch(UpperAlpha, i) = c
  THEN LET i == CHOOSE j \in 1..26 : Ch(UpperAlpha, j) = c IN Ch(LowerAlpha, i)
  ELSE c

\* str.lower()
RECURSIVE Lower(_)
Lower(s) == IF Len(s) = 0 THEN "" ELSE LowerChar(Ch(s, 1)) \o Lower(SubSeq(s, 2, Len(s)))

\* 1-based start of the first occurrence of k in s, 0 if none (str.find + 1)
Find(s, k) ==
  LET P == {i \in 1..(Len(s) - Len(k) + 1) : SubSeq(s, i, i + Len(k) - 1) = k}
  IN IF P = {} THEN 0 ELSE CHOOSE i \in P : \A j \in P : i <= j

\* Python: k in s
In(k, s) == Find(s, k) > 0

\* Python: s.split(k, 1)[1]   (only used where k occurs in s)
After(s, k) == SubSeq(s, Find(s, k) + Len(k), Len(s))

\* The ASCII characters of str.isspace() / re \s: space, \t, \n, \x0b, \f,
\* \r and \x1c-\x1f (the last five written as raw bytes)
Whitespace == {" ", "\t", "\n", "", "\f", "\r", "", "", "", ""}

\* s with the characters of ws removed from both ends
StripSet(s, ws) ==
  LET NW == {i \in 1..Len(s) : Ch(s, i) \notin ws}
  IN IF NW = {} THEN ""
     ELSE LET a == CHOOSE i \in NW : \A j \in NW : i <= j
              b == CHOOSE i \in NW : \A j \in NW : i >= j
          IN SubSeq(s, a, b)

\* Python: s.strip()
Strip(s) == StripSet(s, Whitespace)

\* the whitespace int() skips around its digits (C isspace: no \x1c-\x1f)
IntWhitespace == {" ", "\t", "\n", "", "\f", "\r"}

AnyIn(ks, s) == \E i \in 1..Len(ks) : In(ks[i], s)

DigitChars == {"0","1","2","3","4","5","6","7","8","9"}
IsDigit(c) == c \in DigitChars
DigitVal(c) == CHOOSE d \in 0..9 : Ch("0123456789", d + 1) = c


RECURSIVE DropUnderscores(_)
DropUnderscores(s) ==
  IF Len(s) = 0 THEN ""
  ELSE (IF Ch(s, 1) = "_" THEN "" ELSE Ch(s, 1)) \o DropUnderscores(SubSeq(s, 2, Len(s)))

\* Python: int(s): surrounding whitespace, an optional sign, digits with
\* single underscores between them; ok = FALSE is ValueError
PyIntBody(b) ==
  /\ Len(b) > 0
  /\ \A i \in 1..Len(b) : IsDigit(Ch(b, i)) \/ Ch(b, i) = "_"
  /\ IsDigit(Ch(b, 1)) /\ IsDigit(Ch(b, Len(b)))
  /\ ~In("__", b)
PyInt(s) ==
  LET t == StripSet(s, IntWhitespace)
      neg == Len(t) > 0 /\ Ch(t, 1) = "-"
      b == IF Len(t) > 0 /\ Ch(t, 1) \in {"+", "-"} THEN SubSeq(t, 2, Len(t)) ELSE t
  IN IF PyIntBody(b)
     THEN [ok |-> TRUE, neg |-> neg, digits |-> DropUnderscores(b)]
     ELSE [ok |-> FALSE, neg |-> FALSE, digits |-> ""]

\* datetime.now() + timedelta(seconds = n * mult) raises OverflowError past
\* datetime.max.  The model's day is 2026-10-15; from its midnight to
\* datetime.max there are MaxDatetimeSecondsDigits seconds (+ 0.999999).
\* The check works on decimal digits, since the numbers pass 2^31.
MaxDatetimeSecondsDigits == "251610278399"
RECURSIVE DigitList(_)
\* little-endian digit values of a digit string
DigitList(s) == IF Len(s) = 0 THEN <<>>
                ELSE <<DigitVal(Ch(s, Len(s)))>> \o DigitList(SubSeq(s, 1, Len(s) - 1))
RECURSIVE MulAdd(_, _, _)
\* digits of (ds * m + c), little-endian
MulAdd(ds, m, c) ==
  IF ds = <<>> THEN (IF c = 0 THEN <<>> ELSE <<c % 10>> \o MulAdd(<<>>, m, c \div 10))
  ELSE LET v == Head(ds) * m + c IN <<v % 10>> \o MulAdd(Tail(ds), m, v \div 10)
RECURSIVE TrimHigh(_)
TrimHigh(ds) == IF ds # <<>> /\ ds[Len(ds)] = 0 THEN TrimHigh(SubSeq(ds, 1, Len(ds) - 1)) ELSE ds
\* a > b for little-endian digit lists without high zeros
RECURSIVE DigitsGreater(_, _)
DigitsGreater(a, b) ==
  IF Len(a) # Len(b) THEN Len(a) > Len(b)
  ELSE IF Len(a) = 0 THEN FALSE
  ELSE IF a[Len(a)] # b[Len(b)] THEN a[Len(a)] > b[Len(b)]
  ELSE DigitsGreater(SubSeq(a, 1, Len(a) - 1), SubSeq(b, 1, Len(b) - 1))
RECURSIVE DivSmall(_, _, _)
\* little-endian digits of (ds \div m), long division from the high digit
\* with carried remainder r
DivSmall(ds, m, r) ==
  IF ds = <<>> THEN <<>>
  ELSE LET v == r * 10 + ds[Len(ds)]
       IN DivSmall(SubSeq(ds, 1, Len(ds) - 1), m, v % m) \o <<v \div m>>
RECURSIVE DigitsString(_)
\* decimal text of a little-endian digit list without high zeros
DigitsString(ds) ==
  IF ds = <<>> THEN "0"
  ELSE IF Len(ds) = 1 THEN ToString(ds[1])
  ELSE DigitsString(Tail(ds)) \o ToString(ds[1])
SecondsPerDay == 86400
RECURSIVE ModSmall(_, _, _)
\* (ds % m) for a little-endian digit list, r the remainder carried so far
ModSmall(ds, m, r) ==
  IF ds = <<>> THEN r
  ELSE ModSmall(SubSeq(ds, 1, Len(ds) - 1), m, (r * 10 + ds[Len(ds)]) % m)
RECURSIVE ListVal(_)
\* the value of a little-endian digit list (used below 2^31 only)
ListVal(ds) == IF ds = <<>> THEN 0 ELSE ds[1] + 10 * ListVal(Tail(ds))
\* str() of a PyInt result
IntText(n) ==
  LET ds == TrimHigh(DigitList(n.digits))
  IN (IF n.neg /\ ds # <<>> THEN "-" ELSE "") \o DigitsString(ds)

\* the clock's resolution: datetime.now() is read in ticks of 1/TicksPerSecond s
TicksPerSecond == 2
\* a datetime: [day, sec, tick] after midnight of the model day
Dt(d, s, f) == [day |-> d, sec |-> s, tick |-> f]
\* datetime.now() at clock c
AtClock(c) == Dt(0, c \div TicksPerSecond, c % TicksPerSecond)
\* a <= b on datetimes
DtLeq(a, b) ==
  \/ a.day < b.day
  \/ a.day = b.day /\ a.sec < b.sec
  \/ a.day = b.day /\ a.sec = b.sec /\ a.tick <= b.tick
\* the datetime total seconds after the model day's midnight (total < 2^31)
DtOfSeconds(total) == Dt(total \div SecondsPerDay, total % SecondsPerDay, 0)
\* timedelta(seconds=n * mult) (lines 169, 176) normalises to d days; CPython
\* raises OverflowError when d does not fit a C int, when |d| > 999999999,
\* and datetime.now() + delta raises it when the sum passes datetime.max.
\* The error text is "" when nothing is raised. (A negative n never comes
\* out of line 230's match.)
FireError(n, mult, t) ==
  IF n.neg THEN ""
  ELSE LET total == TrimHigh(MulAdd(DigitList(n.digits), mult, 0))
           d == TrimHigh(DivSmall(total, SecondsPerDay, 0))
       IN IF DigitsGreater(d, DigitList("2147483647"))
          THEN "Python int too large to convert to C int"
          ELSE IF DigitsGreater(d, DigitList("999999999"))
          THEN "days=" \o DigitsString(d) \o "; must have magnitude <= 999999999"
          ELSE IF DigitsGreater(TrimHigh(MulAdd(DigitList(n.digits), mult, t)),
                                DigitList(MaxDatetimeSecondsDigits))
          THEN "date value out of range"
          ELSE ""

\* Python: s.split(" ")[0]
FirstField(s) == IF In(" ", s) THEN SubSeq(s, 1, Find(s, " ") - 1) ELSE s

\* re.search(r'(\d+)\s*(seconds?|minutes?)', s).group(0)
\* At a start i: \d+ is greedy, \s* is greedy, then "second"/"minute" and an
\* optional "s"; backtracking into \d+ or \s* can never succeed, since the
\* next character would then be a digit or whitespace.
\* last index of the run of characters in cs starting at i (i - 1 if empty)
RunEnd(s, i, cs) ==
  LET J == {j \in (i - 1)..Len(s) : \A k \in i..j : Ch(s, k) \in cs}
  IN CHOOSE j \in J : \A m \in J : j >= m
UnitLen(s, p) ==
  IF p + 5 <= Len(s) /\ SubSeq(s, p, p + 5) \in {"second", "minute"}
  THEN IF p + 6 <= Len(s) /\ Ch(s, p + 6) = "s" THEN 7 ELSE 6
  ELSE 0
MatchEndAt(s, i) ==
  LET d == RunEnd(s, i, DigitChars)
      w == RunEnd(s, d + 1, Whitespace)
  IN IF IsDigit(Ch(s, i)) /\ UnitLen(s, w + 1) > 0 THEN w + UnitLen(s, w + 1) ELSE 0
TimeRegex(s) ==
  LET S == {i \in 1..Len(s) : MatchEndAt(s, i) > 0}
  IN IF S = {} THEN [found |-> FALSE, str |-> ""]
     ELSE LET i == CHOOSE j \in S : \A m \in S : j <= m
          IN [found |-> TRUE, str |-> SubSeq(s, i, MatchEndAt(s, i))]

\* ------------------------------------------------------- keyword tables
TimeKeywords == <<"time", "hour", "clock", "o'clock">>
WeatherKeywords == <<"weather", "climate", "forecast", "meteorology", "temperature",
                     "cloud cover", "windspeed", "humidity", "pressure">>
ReminderKeywords == <<"reminder", "remind me", "set reminder">>
AffirmWords == <<"yes", "would like", "i'd like that", "affirmative", "confirmative",
                 "yep", "yeah", "please do", "sure", "positive", "do it">>
FarewellWords == <<"exit", "goodbye", "bye", "see you later", "tata", "see ya",
                   "shareenna", "alvida", "adios", "ciao", "au revoir", "sayonara", "pootte">>
TriggerWords == <<"on", "about", "relating to", "for">>
WEATHER_LOCATION == "New Delhi"
SecondsPerMinute == 60

\* datetime.now().strftime("%I:%M %p") at clock c
Pad2(n) == IF n < 10 THEN "0" \o ToString(n) ELSE ToString(n)
FormatTime(c) ==
  LET t == c \div TicksPerSecond
      h == (t \div 3600) % 24
      m == (t \div 60) % 60
      h12 == IF h % 12 = 0 THEN 12 ELSE h % 12
  IN Pad2(h12) \o ":" \o Pad2(m) \o " " \o (IF h < 12 THEN "AM" ELSE "PM")

\* set_reminder_data(reminder_text, time_str) at clock c.
\* added: the reminder dicts appended to the list (<<>> or one element);
\* raise: the OverflowError of line 169 / 176, which escapes the function.
ReminderOk(reminder_text, n, unit, mult, c) ==
  LET t == c \div TicksPerSecond
      f == c % TicksPerSecond
  IN
  IF FireError(n, mult, t) # ""
  THEN [text |-> "", added |-> <<>>, raise |-> TRUE, err |-> FireError(n, mult, t)]
  ELSE [text |-> "Okay, I will remind you to '" \o reminder_text \o "' in " \o IntText(n) \o " " \o unit \o ".",
        added |-> <<[time |-> IF n.neg
                              THEN LET d == DtOfSeconds(t - ListVal(TrimHigh(MulAdd(DigitList(n.digits), mult, 0))))
                                   IN Dt(d.day, d.sec, f)
                              ELSE LET total == TrimHigh(MulAdd(DigitList(n.digits), mult, t))
                                   IN Dt(ListVal(DivSmall(total, SecondsPerDay, 0)),
                                         ModSmall(total, SecondsPerDay, 0), f),
                     text |-> reminder_text]>>, raise |-> FALSE, err |-> ""]
ReminderTimeError ==
  [text |-> "Sorry, I couldn't understand the time. Please specify a number followed by 'seconds' or 'minutes'.",
   added |-> <<>>, raise |-> FALSE, err |-> ""]
set_reminder_data(reminder_text, time_str, t) ==
  IF In("seconds", time_str) THEN
    LET n == PyInt(FirstField(time_str)) IN
    IF ~n.ok THEN ReminderTimeError ELSE ReminderOk(reminder_text, n, "seconds", 1, t)
  ELSE IF In("minutes", time_str) THEN
    LET n == PyInt(FirstField(time_str)) IN
    IF ~n.ok THEN ReminderTimeError ELSE ReminderOk(reminder_text, n, "minutes", SecondsPerMinute, t)
  ELSE [text |-> "I can only set reminders in seconds or minutes for now. Please try again.",
        added |-> <<>>, raise |-> FALSE, err |-> ""]

\* ------------------------------------------------ classification + dispatch
\* The part of process_command before the due-sweep, on the already
\* lowercased command.  wo / no: what the weather / news lookup meets (API
\* key unset, a body that is not JSON, or one of the payloads below); err is
\* str() of an exception that escapes the handler.
NoArg == [some |-> FALSE, val |-> ""]
Arg(v) == [some |-> TRUE, val |-> v]

DefaultResp == [branch |-> "none", type |-> "error",
                text |-> "I'm sorry, I don't understand that command yet. Please try again.",
                raise |-> FALSE, err |-> "", loc |-> NoArg, query |-> NoArg,
                timeStr |-> NoArg, msg |-> NoArg, added |-> <<>>]

\* weather branch: location extraction
WeatherLocation(command) ==
  IF In("weather in", command) \/ In("weather at", command)
  THEN LET kw == IF In("weather in", command) THEN "weather in" ELSE "weather at"
       IN Arg(Strip(SubSeq(command, Find(command, kw) + Len(kw), Len(command))))
  ELSE NoArg

\* news branch: the for-loop over trigger_words
RECURSIVE NewsQueryFrom(_, _)
NewsQueryFrom(command, i) ==
  IF i > Len(TriggerWords) THEN NoArg
  ELSE IF In(" " \o TriggerWords[i] \o " ", command)
       THEN Arg(Strip(After(command, TriggerWords[i])))
       ELSE NewsQueryFrom(command, i + 1)
NewsQuery(command) == NewsQueryFrom(command, 1)

\* reminder branch
ReminderBranch(command, t) ==
  LET m == TimeRegex(command) IN
  IF ~m.found
  THEN [DefaultResp EXCEPT !.branch = "reminder", !.type = "error",
          !.text = "To set a reminder, please use a phrase like, 'set a reminder to take out the trash in 5 minutes'."]
  ELSE LET part == Strip(After(command, m.str))
           rt == IF In(" to ", part) THEN Strip(After(part, " to ")) ELSE part
       IN IF Len(rt) > 0
          THEN LET r == set_reminder_data(rt, m.str, t)
               IN [DefaultResp EXCEPT !.branch = "reminder", !.type = "reminder_set",
                     !.text = r.text, !.timeStr = Arg(m.str), !.msg = Arg(rt), !.added = r.added,
                     !.raise = r.raise, !.err = r.err]
          ELSE [DefaultResp EXCEPT !.branch = "reminder", !.type = "error", !.timeStr = Arg(m.str),
                  !.text = "I found a time, but couldn't find a reminder message. Please use a phrase like 'remind me in 5 minutes to call mom.'"]

\* get_weather_data(location) (lines 66-111), the geocoding call answering
\* normally.  Outcomes: "nokey" (no OPENWEATHER_API_KEY), "notfound" (cod
\* "404"), "ok" (a full payload), a weather answer whose body is not JSON
\* ("notjson": requests >= 2.27 raises requests.exceptions.JSONDecodeError,
\* a RequestException caught at line 110; "notjson_old": older requests
\* raise json.JSONDecodeError, which escapes), and payloads that make lines
\* 92-99 raise: "nomain" (no "main"), "noweather" (no "weather"),
\* "emptyweather" ("weather": []), "notemp" (main without "temp": None:.1f).
WeatherOutcomes == {"ok", "nokey", "notfound", "notjson", "notjson_old", "nomain",
                    "noweather", "emptyweather", "notemp"}
\* str(e) of the JSONDecodeError raised by response.json() on an empty or
\* HTML body
JsonDecodeText == "Expecting value: line 1 column 1 (char 0)"
\* the "ok" payload: main.temp 21.5, main.humidity 40, main.pressure 1010,
\* weather[0].description "haze"
SampleWeather == [temp |-> "21.5", humidity |-> "40", pressure |-> "1010", description |-> "haze"]
get_weather_data(location, wo) ==
  LET use == IF location.some /\ Len(location.val) > 0 THEN location.val ELSE WEATHER_LOCATION
      ok(txt) == [raise |-> FALSE, err |-> "", text |-> txt]
      ex(e) == [raise |-> TRUE, err |-> e, text |-> ""]
  IN CASE wo = "nokey" -> ok("Please set your OpenWeatherMap API key.")
       [] wo = "notjson" -> ok("Sorry, I had trouble getting the weather. The error was: " \o JsonDecodeText)
       [] wo = "notjson_old" -> ex(JsonDecodeText)
       [] wo = "notfound" -> ok("I couldn't find the weather for " \o use \o ".")
       [] wo = "nomain" -> ex("'main'")
       [] wo = "noweather" -> ex("'weather'")
       [] wo = "emptyweather" -> ex("list index out of range")
       [] wo = "notemp" -> ex("unsupported format string passed to NoneType.__format__")
       [] OTHER -> ok("The temperature in " \o use \o " is " \o SampleWeather.temp
                      \o " degrees Celsius, with " \o SampleWeather.description
                      \o ". The humidity is " \o SampleWeather.humidity
                      \o " percent, and the atmospheric pressure is " \o SampleWeather.pressure
                      \o " hectopascals.")

\* get_news_data(query) (lines 114-159).  Outcomes: "nokey" (no
\* GUARDIAN_API_KEY), "noresults" (status not "ok" or no results), "ok" (one
\* article titled "T1"), a body that is not JSON ("notjson" / "notjson_old"
\* as for the weather), and articles without "webTitle" / "webUrl" (KeyError
\* at line 149).
NewsOutcomes == {"ok", "nokey", "noresults", "notjson", "notjson_old", "notitle", "nourl"}
SampleHeadline == "T1"
get_news_data(query, no) ==
  LET intro == IF query.some /\ Len(query.val) > 0
               THEN "Getting the latest news about " \o query.val \o " from yesterday from The Guardian."
               ELSE "Here are the top headlines from yesterday from The Guardian:"
      ok(txt) == [raise |-> FALSE, err |-> "", text |-> txt]
      ex(e) == [raise |-> TRUE, err |-> e, text |-> ""]
  IN CASE no = "nokey" -> ok("Please set your Guardian API key.")
       [] no = "notjson" -> ok("Sorry, I had trouble getting the news. The error was: " \o JsonDecodeText)
       [] no = "notjson_old" -> ex(JsonDecodeText)
       [] no = "noresults" -> ok("I couldn't fetch any news headlines at the moment.")
       [] no = "notitle" -> ex("'webTitle'")
       [] no = "nourl" -> ex("'webUrl'")
       [] OTHER -> ok(intro \o " Headline number 1: " \o SampleHeadline
                      \o ". Would you like me to provide the URLs to see the full articles?")

\* weather branch (lines 204-212)
WeatherBranch(command, wo) ==
  LET loc == WeatherLocation(command)
      w == get_weather_data(loc, wo)
  IN [DefaultResp EXCEPT !.branch = "weather", !.type = "weather", !.loc = loc,
        !.raise = w.raise, !.err = w.err, !.text = w.text]

\* news branch (lines 214-226)
NewsBranch(command, no) ==
  LET q == NewsQuery(command)
      r == get_news_data(q, no)
  IN [DefaultResp EXCEPT !.branch = "news", !.type = "news", !.query = q,
        !.raise = r.raise, !.err = r.err, !.text = r.text]

DispatchWeatherFirst(command, t, wo, no) ==
  IF AnyIn(WeatherKeywords, command) THEN WeatherBranch(command, wo)
  ELSE IF AnyIn(TimeKeywords, command) THEN
    [DefaultResp EXCEPT !.branch = "time", !.type = "time",
       !.text = "The current time is " \o FormatTime(t)]
  ELSE IF In("news", command) THEN NewsBranch(command, no)
  ELSE IF AnyIn(ReminderKeywords, command) THEN
    ReminderBranch(command, t)
  ELSE IF AnyIn(AffirmWords, command) THEN
    [DefaultResp EXCEPT !.branch = "confirmation", !.type = "news_confirmation",
       !.text = "Okay, displaying the links now."]
  ELSE IF AnyIn(FarewellWords, command) THEN
    [DefaultResp EXCEPT !.branch = "goodbye", !.type = "goodbye",
       !.text = "Goodbye! Have a great day."]
  ELSE DefaultResp

Dispatch(command, t, wo, no) ==
  IF AnyIn(TimeKeywords, command) THEN
    [DefaultResp EXCEPT !.branch = "time", !.type = "time",
       !.text = "The current time is " \o FormatTime(t)]
  ELSE IF AnyIn(WeatherKeywords, command) THEN WeatherBranch(command, wo)
  ELSE IF In("news", command) THEN NewsBranch(command, no)
  ELSE IF AnyIn(ReminderKeywords, command) THEN
    ReminderBranch(command, t)
  ELSE IF AnyIn(AffirmWords, command) THEN
    [DefaultResp EXCEPT !.branch = "confirmation", !.type = "news_confirmation",
       !.text = "Okay, displaying the links now."]
  ELSE IF AnyIn(FarewellWords, command) THEN
    [DefaultResp EXCEPT !.branch = "goodbye", !.type = "goodbye",
       !.text = "Goodbye! Have a great day."]
  ELSE DefaultResp

\* process_command up to the sweep: command = data.get("command", "").lower()
HandleCommand(raw, t, wo, no) == Dispatch(Lower(raw), t, wo, no)

\* ------------------------------------------------------------ due-sweep
\* A stored reminder is {"time", "text"} plus a ghost id (not part of the
\* dict, so list.remove compares time and text only).
SameDict(a, b) == a.time = b.time /\ a.text = b.text

\* current_time >= datetime.fromisoformat(reminder["time"])
Due(t, r) == DtLeq(r.time, AtClock(t))

AlertFor(r) == [type |-> "reminder_alert", text |-> "Reminder: " \o r.text]

\* list.remove(x): index of the first element equal to x (0: ValueError)
FirstEqual(store, r) ==
  LET P == {i \in 1..Len(store) : SameDict(store[i], r)}
  IN IF P = {} THEN 0 ELSE CHOOSE i \in P : \A j \in P : i <= j
RemoveAt(store, i) == SubSeq(store, 1, i - 1) \o SubSeq(store, i + 1, Len(store))

\* ------------------------------------------------------------ server
\* app.run(debug=True): Werkzeug's development server is threaded, so
\* requests run process_command concurrently on the shared `reminders` list,
\* with no lock.  A request is split at its accesses to shared state, each
\* one GIL-atomic: the handler with its clock read (lines 193-256 up to
\* line 169 / 176), the list.append of line 171 / 178, the clock read of
\* line 258, one iteration of `for reminder in reminders` (a list iterator
\* reads reminders[i] while i < len), and one list.remove call of line 266.
MaxRequests == 2
MaxTime == 2
Ids == 1..MaxRequests
NoResp == [type |-> "none", text |-> ""]
\* ghost fire time of an id not created yet
NoTime == Dt(-1, 0, 0)

StoreCommands == {"remind me in 0 seconds to go to bed",
                  "Remind me in 1 seconds to run",
                  "remind me in 300000000000 seconds to run",
                  "what is the weather"}

\* the weather lookup outcomes of the server specification: a full payload
\* and a payload that raises (KeyError 'main')
ServerWeatherOutcomes == {"ok", "nomain"}

\* HandleCommand over every input of the server specification (a constant
\* table, evaluated once)
HandledTable == [raw \in StoreCommands, wo \in ServerWeatherOutcomes, t \in 0..MaxTime |->
                   HandleCommand(raw, t, wo, "ok")]

\* the lookup outcomes a command meets: ServerWeatherOutcomes on the weather
\* branch, none elsewhere (wo is then unused)
StoreLookups == [raw \in StoreCommands |->
                   IF HandledTable[raw, "ok", 0].branch = "weather" THEN ServerWeatherOutcomes ELSE {"ok"}]

NoParam == [n |-> 0, unit |-> "", msg |-> "", sp |-> ""]
NoOut == [DefaultResp EXCEPT !.branch = "unprocessed"]

\* A server thread serving one request at a time.  pc: "idle", "append"
\* (before line 171 / 178), "clock" (before line 258), "scan" (in the loop
\* of lines 259-263), "remove" (in the loop of lines 265-266), "done".
\* Locals: pend (the dict set_reminder_data will append), resp
\* (response_data), t (current_time), i (the list iterator's index), rm
\* (reminders_to_remove); i and rm are reset once dead.  Ghosts: hresp (response_data after the branch),
\* snap (the list when line 258 read the clock), found (the reminders the
\* scan alerted, with ids), raised / err (an exception escaped the branch),
\* swept (line 258 ran), status (the answer's HTTP status).
Threads == {1, 2}
IdleThread == [pc |-> "idle", pend |-> <<>>, hresp |-> NoResp, resp |-> NoResp,
               t |-> -1, i |-> 1, rm |-> <<>>, snap |-> <<>>, found |-> <<>>,
               raised |-> FALSE, err |-> "", swept |-> FALSE, status |-> "none"]

serverVars == <<reminders, now, nextId, fireAt, fireCount, firedAt, served, threads>>
vars == <<serverVars, cmd, param, out>>

InitServer ==
  /\ reminders = <<>>
  /\ now = 0
  /\ nextId = 1
  /\ fireAt = [k \in Ids |-> NoTime]
  /\ fireCount = [k \in Ids |-> 0]
  /\ firedAt = [k \in Ids |-> -1]
  /\ served = 0
  /\ threads = [th \in Threads |-> IdleThread]

Init ==
  /\ InitServer
  /\ cmd = ""
  /\ param = NoParam
  /\ out = NoOut

ErrorResp(e) == [type |-> "error", text |-> "An error occurred: " \o e]

\* an exception raised in the branch leaves the try block for the except
\* clause (lines 270-271), skipping the rest of process_command
EscapesNever(h) == FALSE
Escapes(h) == h.raise

\* Bodies that make line 194 raise AttributeError: a JSON value that is not
\* an object (data.get), or an object whose "command" is not a string
\* (.lower()); ty is the Python type of the offending value.
BadBodies ==
  [at : {"get"}, ty : {"NoneType", "list", "str", "int", "float", "bool"}] \cup
  [at : {"lower"}, ty : {"NoneType", "list", "dict", "int", "float", "bool"}]

\* Bodies that make request.json itself raise at line 193 (Flask / Werkzeug,
\* unpinned): a body that is not JSON, with Content-Type application/json,
\* raises BadRequest, carrying the json error under debug=True (sample
\* bodies "" and "{") and a generic text otherwise; another Content-Type
\* raises BadRequest (Werkzeug 2.1-2.2) or UnsupportedMediaType (2.3+), or
\* gives None on older versions (the NoneType case of BadBodies).
JsonErrors == {"Failed to decode JSON object: Expecting value: line 1 column 1 (char 0)",
               "Failed to decode JSON object: Expecting property name enclosed in double quotes: line 1 column 2 (char 1)",
               "The browser (or proxy) sent a request that this server could not understand."}
NotJsonMessage ==
  "Did not attempt to load JSON data because the request Content-Type was not 'application/json'."
RequestJsonErrors ==
  {"400 Bad Request: " \o m : m \in JsonErrors \cup {NotJsonMessage}} \cup
  {"415 Unsupported Media Type: " \o NotJsonMessage}

\* str(e) of what a bad body raises at lines 193-194
BadBodyError(b) == "'" \o b.ty \o "' object has no attribute '" \o b.at \o "'"
BadBodyErrors == {BadBodyError(b) : b \in BadBodies} \cup RequestJsonErrors
\* the bad body of the server specification: a JSON list
ServerBadBodyErrors == {BadBodyError([at |-> "get", ty |-> "list"])}

\* POST /process_command with {"command": raw} reaches thread th: the branch
\* runs, reading the clock (lines 201, 169, 176) as now; a reminder it
\* creates is appended in a later step.
StartCommand(th, raw, wo) ==
  /\ threads[th].pc \in {"idle", "done"}
  /\ served < MaxRequests
  /\ \E h \in {HandledTable[raw, wo, now]} :
       threads' = [threads EXCEPT ![th] =
         IF Escapes(h)
         THEN [IdleThread EXCEPT !.pc = "done", !.resp = ErrorResp(h.err), !.status = "500",
                                 !.raised = TRUE, !.err = h.err]
         ELSE [IdleThread EXCEPT !.pc = IF Len(h.added) > 0 THEN "append" ELSE "clock",
                                 !.pend = h.added,
                                 !.hresp = [type |-> h.type, text |-> h.text],
                                 !.resp = [type |-> h.type, text |-> h.text],
                                 !.raised = h.raise, !.err = h.err]]
  /\ served' = served + 1
  /\ UNCHANGED <<reminders, now, nextId, fireAt, fireCount, firedAt, cmd, param, out>>

\* POST /process_command with a body that makes lines 193-194 raise: 500
\* before any other line runs.
BadRequest(th, e) ==
  /\ threads[th].pc \in {"idle", "done"}
  /\ served < MaxRequests
  /\ threads' = [threads EXCEPT ![th] =
       [IdleThread EXCEPT !.pc = "done", !.resp = ErrorResp(e), !.status = "500",
                          !.raised = TRUE, !.err = e]]
  /\ served' = served + 1
  /\ UNCHANGED <<reminders, now, nextId, fireAt, fireCount, firedAt, cmd, param, out>>

\* reminders.append(reminder_data) (line 171 / 178)
AppendReminder(th) ==
  LET T == threads[th] IN
  /\ T.pc = "append"
  /\ reminders' = Append(reminders, [time |-> T.pend[1].time, text |-> T.pend[1].text, id |-> nextId])
  /\ fireAt' = [fireAt EXCEPT ![nextId] = T.pend[1].time]
  /\ nextId' = nextId + 1
  /\ threads' = [threads EXCEPT ![th].pc = "clock", ![th].pend = <<>>]
  /\ UNCHANGED <<now, fireCount, firedAt, served, cmd, param, out>>

\* current_time = datetime.datetime.now() (line 258)
ClockRead(th) ==
  /\ threads[th].pc = "clock"
  /\ threads' = [threads EXCEPT ![th].pc = "scan", ![th].t = now, ![th].i = 1,
                                ![th].snap = reminders, ![th].swept = TRUE]
  /\ UNCHANGED <<reminders, now, nextId, fireAt, fireCount, firedAt, served, cmd, param, out>>

\* one iteration of the scan loop (lines 259-263), or its exit
ScanStep(th) ==
  LET T == threads[th] IN
  /\ T.pc = "scan"
  /\ IF T.i > Len(reminders)
     THEN /\ threads' = [threads EXCEPT ![th].pc = "remove", ![th].i = 1]
          /\ UNCHANGED <<fireCount, firedAt>>
     ELSE IF Due(T.t, reminders[T.i])
     THEN /\ threads' = [threads EXCEPT ![th].i = T.i + 1,
                                        ![th].resp = AlertFor(reminders[T.i]),
                                        ![th].rm = Append(T.rm, reminders[T.i]),
                                        ![th].found = Append(T.found, reminders[T.i])]
          /\ fireCount' = [fireCount EXCEPT ![reminders[T.i].id] = @ + 1]
          /\ firedAt' = [firedAt EXCEPT ![reminders[T.i].id] = T.t]
     ELSE /\ threads' = [threads EXCEPT ![th].i = T.i + 1]
          /\ UNCHANGED <<fireCount, firedAt>>
  /\ UNCHANGED <<reminders, now, nextId, fireAt, served, cmd, param, out>>

\* one reminders.remove(reminder) call (line 266), or the return (line 268);
\* a ValueError goes to the except clause (lines 270-271)
RemoveStep(th) ==
  LET T == threads[th] IN
  /\ T.pc = "remove"
  /\ IF Len(T.rm) = 0
     THEN /\ threads' = [threads EXCEPT ![th].pc = "done", ![th].status = "200"]
          /\ UNCHANGED reminders
     ELSE IF FirstEqual(reminders, Head(T.rm)) = 0
     THEN /\ threads' = [threads EXCEPT ![th].pc = "done", ![th].status = "500", ![th].rm = <<>>,
                                        ![th].resp = ErrorResp("list.remove(x): x not in list")]
          /\ UNCHANGED reminders
     ELSE /\ reminders' = RemoveAt(reminders, FirstEqual(reminders, Head(T.rm)))
          /\ threads' = [threads EXCEPT ![th].rm = Tail(T.rm)]
  /\ UNCHANGED <<now, nextId, fireAt, fireCount, firedAt, served, cmd, param, out>>

\* the clock advances by one tick
Tick ==
  /\ now < MaxTime
  /\ now' = now + 1
  /\ UNCHANGED <<reminders, nextId, fireAt, fireCount, firedAt, served, threads, cmd, param, out>>

Next ==
  \/ \E th \in Threads, raw \in StoreCommands : \E wo \in StoreLookups[raw] : StartCommand(th, raw, wo)
  \/ \E th \in Threads, e \in ServerBadBodyErrors : BadRequest(th, e)
  \/ \E th \in Threads : AppendReminder(th)
  \/ \E th \in Threads : ClockRead(th)
  \/ \E th \in Threads : ScanStep(th)
  \/ \E th \in Threads : RemoveStep(th)
  \/ Tick

Spec == Init /\ [][Next]_vars
\* ------------------------------------------- single commands (classifier)
\* One request, with the list empty: the result of the handler part of
\* process_command for each command of a bounded set.
MaxWords == 2
PriorityVocab == {"time", "clock", "weather", "humidity", "news", "remind me",
                  "reminder", "5 seconds to go", "yes", "sure", "bye", "ciao", "hi"}
RECURSIVE JoinWords(_)
JoinWords(ws) == IF Len(ws) = 1 THEN ws[1] ELSE ws[1] \o " " \o JoinWords(Tail(ws))
PriorityCommands ==
  {JoinWords(ws) : ws \in UNION {[1..k -> PriorityVocab] : k \in 1..MaxWords}}

MaxN == 5
Units == {"second", "seconds", "minute", "minutes"}
Spacings == {"", " ", "  ", "\t ", "", ""}
Messages == {"call mom", "go to bed", "Call Mom"}
ReminderParams == [n : 0..MaxN, unit : Units, msg : Messages, sp : Spacings]
ReminderCommand(p) == "remind me in " \o ToString(p.n) \o p.sp \o p.unit \o " to " \o p.msg

WeatherCommands ==
  {pre \o kw \o post : pre \in {"", "the "},
                       kw \in {"weather in", "weather at", "Weather In", "weather", "forecast in"},
                       post \in {"", " Tokyo", " paris ", "  new York", "\tTokyo\n", "tokyo"}}

NewsCommands ==
  {pre \o "news" \o trig \o topic : pre \in {"", "money ", "tell me the "},
                                    trig \in {" on ", " about ", " for ", " relating to ", " "},
                                    topic \in {"sports", "information", "x about sports", "sports\n", "sports"}}

InitIdle == InitServer /\ out = NoOut

\* the reminders a whole scan of `for reminder in reminders` finds due at
\* clock t (lines 259-263, run without another request in between)
RECURSIVE ScanFrom(_, _, _, _)
ScanFrom(store, t, i, found) ==
  IF i > Len(store) THEN found
  ELSE ScanFrom(store, t, i + 1, IF Due(t, store[i]) THEN Append(found, store[i]) ELSE found)

\* for reminder in reminders_to_remove: reminders.remove(reminder) (lines
\* 265-266), run without another request in between
RECURSIVE RemoveAll(_, _)
RemoveAll(store, rm) ==
  IF Len(rm) = 0 THEN store
  ELSE RemoveAll(RemoveAt(store, FirstEqual(store, Head(rm))), Tail(rm))

\* POST /process_command with {"command": cmd} served on thread 1 while no
\* other request runs, whatever the weather / news lookups meet: the branch
\* (out records its result), the append of a reminder it creates, and the
\* due-sweep at the same clock reading, or the 500 of an escaping exception.
ClassifyCommand ==
  /\ out = NoOut
  /\ served < MaxRequests
  /\ \A th \in Threads : threads[th].pc \in {"idle", "done"}
  /\ \E wo \in WeatherOutcomes, no \in NewsOutcomes :
     \E o \in {HandleCommand(cmd, now, wo, no)} :
       /\ out' = o
       /\ served' = served + 1
       /\ IF o.raise
          THEN /\ threads' = [threads EXCEPT ![1] =
                    [IdleThread EXCEPT !.pc = "done", !.resp = ErrorResp(o.err), !.status = "500",
                                       !.raised = TRUE, !.err = o.err]]
               /\ UNCHANGED <<reminders, nextId, fireAt, fireCount, firedAt>>
          ELSE \E stored \in {[i \in 1..Len(o.added) |->
                                [time |-> o.added[i].time, text |-> o.added[i].text, id |-> nextId + i - 1]]} :
               \E L \in {reminders \o stored} :
               \E found \in {ScanFrom(L, now, 1, <<>>)} :
               \E hresp \in {[type |-> o.type, text |-> o.text]} :
               /\ reminders' = RemoveAll(L, found)
               /\ nextId' = nextId + Len(stored)
               /\ fireAt' = [k \in Ids |-> IF \E i \in 1..Len(stored) : stored[i].id = k
                                           THEN stored[k - nextId + 1].time ELSE fireAt[k]]
               /\ fireCount' = [k \in Ids |-> fireCount[k] + Cardinality({j \in 1..Len(found) : found[j].id = k})]
               /\ firedAt' = [k \in Ids |-> IF \E j \in 1..Len(found) : found[j].id = k THEN now ELSE firedAt[k]]
               /\ threads' = [threads EXCEPT ![1] =
                    [IdleThread EXCEPT !.pc = "done", !.hresp = hresp,
                       !.resp = IF found = <<>> THEN hresp ELSE AlertFor(found[Len(found)]),
                       !.t = now, !.snap = L, !.found = found, !.raised = FALSE,
                       !.swept = TRUE, !.status = "200"]]
  /\ UNCHANGED <<cmd, param, now>>

InitPriority == InitIdle /\ cmd \in PriorityCommands /\ param = NoParam
PrioritySpec == InitPriority /\ [][ClassifyCommand]_vars

InitReminder == InitIdle /\ \E p \in ReminderParams :
                  /\ cmd = ReminderCommand(p)
                  /\ param = p
ReminderSpec == InitReminder /\ [][ClassifyCommand]_vars

InitWeather == InitIdle /\ cmd \in WeatherCommands /\ param = NoParam
WeatherSpec == InitWeather /\ [][ClassifyCommand]_vars

InitNews == InitIdle /\ cmd \in NewsCommands /\ param = NoParam
NewsSpec == InitNews /\ [][ClassifyCommand]_vars

\* ------------------------------------------------ properties of the sweep
Plain(seq) == [i \in 1..Len(seq) |-> [time |-> seq[i].time, text |-> seq[i].text]]
DueIdx(seq, t) == {i \in 1..Len(seq) : Due(t, seq[i])}
IdsOf(seq) == {seq[i].id : i \in 1..Len(seq)}
Sweeping(th) == threads[th].pc \in {"scan", "remove"}

\* C1: a reminder is alerted at most once, never before its fire_at, leaves
\* the list exactly when alerted, and the first sweep that runs at or after
\* its fire_at removes it.
FiringProperty ==
  /\ \A k \in Ids : fireCount[k] <= 1
  /\ \A k \in Ids : fireCount[k] >= 1 => DtLeq(fireAt[k], AtClock(firedAt[k]))
  /\ (\A th \in Threads : ~Sweeping(th)) =>
       /\ \A i \in 1..Len(reminders) : fireCount[reminders[i].id] = 0
       /\ \A k \in 1..(nextId - 1) : k \notin IdsOf(reminders) => fireCount[k] = 1
  /\ \A th \in Threads :
       (threads[th].pc = "done" /\ threads[th].swept) =>
         \A i \in DueIdx(threads[th].snap, threads[th].t) : threads[th].snap[i].id \notin IdsOf(reminders)

\* C2: a sweep that starts with no reminder due leaves the list alone (it
\* removes nothing) and keeps the branch's response.
SweepIdempotent ==
  \A th \in Threads :
    LET T == threads[th] IN
    (T.pc = "done" /\ T.swept /\ DueIdx(T.snap, T.t) = {}) =>
       /\ T.found = <<>>
       /\ T.resp = T.hresp

\* C3: when reminders are due at a sweep, the response is the alert of the
\* last due one in list order, and every due reminder is removed.
LastDueWins ==
  \A th \in Threads :
    LET T == threads[th]
        D == DueIdx(T.snap, T.t)
    IN (T.pc = "done" /\ T.swept /\ D # {}) =>
         LET m == CHOOSE i \in D : \A j \in D : i >= j
         IN /\ T.status = "200"
            /\ T.resp = AlertFor(T.snap[m])
            /\ Plain(T.found) = Plain(SelectSeq(T.snap, LAMBDA r : Due(T.t, r)))

\* C4 (as stated): every processed command, whatever happened in its
\* branch, ran the due-sweep.
SweepAfterEveryCommand ==
  \A th \in Threads : threads[th].pc = "done" => threads[th].swept

\* C4 (amended): a command runs the due-sweep exactly when its branch raised
\* no exception; one that raised answers 500 with the error and alerts
\* nothing; one whose sweep completed answers the alert of the last reminder
\* it found due, or the branch's response if it found none.
SweepUnlessRaised ==
  \A th \in Threads :
    LET T == threads[th] IN
    T.pc = "done" =>
      /\ T.swept = ~T.raised
      /\ T.raised => T.status = "500" /\ T.resp = ErrorResp(T.err) /\ T.found = <<>>
      /\ (T.swept /\ T.status = "200") =>
           T.resp = IF T.found = <<>> THEN T.hresp ELSE AlertFor(T.found[Len(T.found)])
SweepUnlessRaisedWitness ==
  \E a \in Threads :
    /\ threads[a].pc = "done" /\ threads[a].raised /\ threads[a].status = "500"
    /\ threads[a].err = "'main'"
    /\ \E i \in 1..Len(reminders) : Due(now, reminders[i])
\* ------------------------------------------ properties of the classifier
\* The rule order, keyword lists and response types as C5 states them.
RuleLists == <<TimeKeywords, WeatherKeywords, <<"news">>, ReminderKeywords,
               AffirmWords, FarewellWords>>
RuleBranch == <<"time", "weather", "news", "reminder", "confirmation", "goodbye">>
RuleTypes == [time |-> {"time"}, weather |-> {"weather"}, news |-> {"news"},
              reminder |-> {"reminder_set", "error"}, confirmation |-> {"news_confirmation"},
              goodbye |-> {"goodbye"}, none |-> {"error"}]
ExpectedBranch(c) ==
  LET lc == Lower(c)
      M == {i \in 1..Len(RuleLists) : \E k \in 1..Len(RuleLists[i]) : In(RuleLists[i][k], lc)}
  IN IF M = {} THEN "none" ELSE RuleBranch[CHOOSE i \in M : \A j \in M : i <= j]

\* Response type of a request whose branch gave o: an exception that
\* escapes the branch is answered by the except clause with type "error".
ResponseType(o) == IF o.raise THEN "error" ELSE o.type

\* C5 (as stated): the branch taken is the first rule, in the fixed order,
\* whose keyword list matches the lowercased command, and the response type
\* is that rule's.
IntentPriorityAsStated ==
  out # NoOut =>
    /\ out.branch = ExpectedBranch(cmd)
    /\ ResponseType(out) \in RuleTypes[ExpectedBranch(cmd)]

\* C5 (amended): the branch taken is the first matching rule; the response
\* type is that rule's, except that a weather / news lookup or a reminder
\* time that raises makes the request answer type "error" (status 500).
IntentPriority ==
  out # NoOut =>
    /\ out.branch = ExpectedBranch(cmd)
    /\ out.raise => out.branch \in {"weather", "news", "reminder"}
    /\ ResponseType(out) \in (IF out.raise THEN {"error"} ELSE RuleTypes[out.branch])
IntentPriorityWitness ==
  out # NoOut /\ ~out.raise /\ out.type = "time" /\ In("weather", Lower(cmd))

\* C6: "remind me in N <unit> to M" calls set_reminder_data(M, "N<sp><unit>"),
\* stores one reminder with fire_at = now + N seconds / minutes and message M,
\* and answers reminder_set.
\* the delay in seconds C6 states for a unit (the claim's reading)
UnitSeconds(u) == IF u \in {"minute", "minutes"} THEN SecondsPerMinute ELSE 1
ReminderCreation ==
  out # NoOut =>
    /\ out.type = "reminder_set"
    /\ out.timeStr = Arg(ToString(param.n) \o param.sp \o param.unit)
    /\ out.msg = Arg(param.msg)
    /\ out.added = <<[time |-> DtOfSeconds(param.n * UnitSeconds(param.unit)), text |-> param.msg]>>

\* C7: the stored message is text of the original command, with its casing.
MessageCasing ==
  out # NoOut => \A i \in 1..Len(out.added) : In(out.added[i].text, cmd)

\* C8: for a weather command containing "weather in X" / "weather at X", the
\* location passed to get_weather_data is X (the original text after the
\* phrase) trimmed; otherwise no location is passed.
WeatherLocationClaim ==
  out.branch = "weather" =>
    LET lc == Lower(cmd)
        Ph == {ph \in {"weather in", "weather at"} : In(ph, lc)}
    IN IF Ph = {} THEN out.loc = NoArg
       ELSE out.loc \in {Arg(Strip(SubSeq(cmd, Find(lc, ph) + Len(ph), Len(cmd)))) : ph \in Ph}

\* C9: the news topic is the text after the space-delimited occurrence of the
\* first trigger word found space-delimited, trimmed; none if there is none.
\* the topic as C9 states it (a space-delimited trigger word)
SpecTopic(lc) ==
  LET W == {i \in 1..Len(TriggerWords) : In(" " \o TriggerWords[i] \o " ", lc)}
  IN IF W = {} THEN NoArg
     ELSE LET w == " " \o TriggerWords[CHOOSE i \in W : \A j \in W : i <= j] \o " "
          IN Arg(Strip(SubSeq(lc, Find(lc, w) + Len(w), Len(lc))))
NewsTopicClaim ==
  out.branch = "news" => out.query = SpecTopic(Lower(cmd))

\* C10: with concurrent requests, no reminder is alerted twice and no request
\* fails with a 500 from list.remove.
ConcurrentConsistency ==
  /\ \A k \in Ids : fireCount[k] <= 1
  /\ \A th \in Threads : threads[th].resp # ErrorResp("list.remove(x): x not in list")

====
